---- MODULE Spec2Model ----
(***************************************************************************)
(* A model of the JSON editor: the path-addressed tree mutation engine     *)
(* (removeMarkedItems, sortArraysByName), the 2-space serializer and the   *)
(* parser it round-trips through, the editing session of the JsonEditor   *)
(* page and the file storage of the server.                                *)
(*                                                                         *)
(* JSON values are tagged pairs <<kind, payload>>:                         *)
(*   <<"null","null">>, <<"number",n>>, <<"string",s>>, <<"boolean",b>>,   *)
(*   <<"array", <<v1,...,vn>> >>, <<"object", << <<k1,v1>>,...>> >>.       *)
(* An object keeps its entries in insertion order, as a JavaScript object  *)
(* does for keys that are not integer-like; every key of the model is such *)
(* a key.  A text buffer is a sequence of tokens, white space included.    *)
(***************************************************************************)
EXTENDS Integers, Sequences, FiniteSets, TLC

(***************************************************************************)
(* Bounds of the model.                                                    *)
(***************************************************************************)
MaxLen == 2        \* longest array inside the generated nested documents
MaxFlatLen == 3    \* longest array of the generated one-level sort inputs
MaxMarked == 2     \* largest marked set drawn for a generated document
MaxEdits == 1      \* edits (structured or raw) made in one run of the session
MaxClock == 1      \* the last second of the server's clock
MaxToggled == 1    \* largest marked set built in the editor
MaxSaves == 1      \* clicks on Save in one run of the session
MaxCalls == 3      \* requests handled in the runs of the storage alone
MaxPosts == 1      \* requests of other clients in the runs of SpecRestore
MaxBufLen == 3     \* tokens of a generated buffer
MaxSeqEdits == 2    \* edits in the runs of SpecInFlight and SpecProtect

(***************************************************************************)
(* JSON values.                                                            *)
(***************************************************************************)
JNull == <<"null", "null">>
JNum(n) == <<"number", n>>
JStr(s) == <<"string", s>>
JBool(b) == <<"boolean", IF b THEN "true" ELSE "false">>
JArr(items) == <<"array", items>>
JObj(entries) == <<"object", entries>>

\* Array.isArray(v)
IsArray(v) == v[1] = "array"
\* typeof v === "object" && v !== null && !Array.isArray(v)
IsPlainObject(v) == v[1] = "object"
\* typeof v === "object"  (true of null, arrays and objects)
TypeofObject(v) == v[1] \in {"null", "array", "object"}
\* typeof v === "string"
IsString(v) == v[1] = "string"

\* Object.keys(o)
Keys(o) == [i \in 1..Len(o[2]) |-> o[2][i][1]]
HasKey(o, k) == \E i \in 1..Len(o[2]) : o[2][i][1] = k
\* o[k] of an object that has the key
Get(o, k) == o[2][CHOOSE i \in 1..Len(o[2]) : o[2][i][1] = k][2]

\* result[key] = value: an existing key keeps its position, a new one is appended
ObjSet(o, k, v) ==
    IF HasKey(o, k)
    THEN JObj([i \in 1..Len(o[2]) |-> IF o[2][i][1] = k THEN <<k, v>> ELSE o[2][i]])
    ELSE JObj(Append(o[2], <<k, v>>))

\* delete o[key]
ObjDelete(o, k) == JObj(SelectSeq(o[2], LAMBDA e : e[1] # k))

(***************************************************************************)
(* Path addressing: `${basePath}[${index}]` and `${basePath}.${key}`.      *)
(***************************************************************************)
IndexPath(basePath, index) == basePath \o "[" \o ToString(index) \o "]"

\* basePath ? `${basePath}.${key}` : key   (the empty string is falsy)
KeyPath(basePath, key) == IF basePath # "" THEN basePath \o "." \o key ELSE key

(***************************************************************************)
(* removeMarkedItems: filter by the path of the index an element has in    *)
(* the input array, then map over the filtered array, whose callback       *)
(* receives the index in the filtered array.                               *)
(***************************************************************************)
\* obj.filter((_, index) => !marked.has(`${basePath}[${index}]`))
RECURSIVE FilterUnmarked(_, _, _, _)
FilterUnmarked(items, basePath, marked, n) ==
    IF n = 0 THEN << >>
    ELSE LET rest == FilterUnmarked(items, basePath, marked, n - 1)
         IN  IF IndexPath(basePath, n - 1) \in marked
             THEN rest
             ELSE Append(rest, items[n])

\* the path handed to the recursive call for the element at (0-based)
\* position `index` of the filtered array: map's own index
MapIndexPath(basePath, index) == IndexPath(basePath, index)

\* a variant that stops looking after the first marked entry of an object
UnmarkedEntriesFirstOnly(entries, basePath, marked) ==
    LET hits == {i \in 1..Len(entries) : KeyPath(basePath, entries[i][1]) \in marked}
    IN  IF hits = {} THEN entries
        ELSE LET first == CHOOSE i \in hits : \A j \in hits : i <= j
             IN  SubSeq(entries, 1, first - 1) \o SubSeq(entries, first + 1, Len(entries))

\* const result = {}; result[key] = value for the entries in turn: the
\* properties result has afterwards.  An assignment to the key __proto__
\* calls the setter of Object.prototype and adds no property to result
Assigned(entries) == SelectSeq(entries, LAMBDA e : e[1] # "__proto__")

\* the entries for which !markedForDeletion.has(currentPath)
UnmarkedEntries(entries, basePath, marked) ==
    SelectSeq(entries, LAMBDA e : KeyPath(basePath, e[1]) \notin marked)

RECURSIVE removeMarkedItems(_, _, _)
removeMarkedItems(obj, basePath, marked) ==
    IF IsArray(obj)
    THEN LET kept == FilterUnmarked(obj[2], basePath, marked, Len(obj[2]))
         IN  JArr([i \in 1..Len(kept) |->
                    removeMarkedItems(kept[i], MapIndexPath(basePath, i - 1), marked)])
    ELSE IF IsPlainObject(obj)
    THEN LET keptEntries == UnmarkedEntries(obj[2], basePath, marked)
         IN  JObj(Assigned([i \in 1..Len(keptEntries) |->
                    <<keptEntries[i][1],
                      removeMarkedItems(keptEntries[i][2],
                                        KeyPath(basePath, keptEntries[i][1]), marked)>>]))
    ELSE obj

(***************************************************************************)
(* sortArraysByName.  localeCompare is modelled by a collation key: the    *)
(* rank of a string in the locale's order; two strings compare equal only  *)
(* when they have the same key.                                            *)
(***************************************************************************)
CollationKey(s) ==
    CASE s = "" -> 0
      [] s = "a" -> 1
      [] s = "b" -> 2
      [] s = "k" -> 3
      [] s = "Name" -> 4
      [] OTHER -> 5

\* a.Name.localeCompare(b.Name) as -1, 0 or 1
localeCompare(s, t) ==
    IF CollationKey(s) < CollationKey(t) THEN -1
    ELSE IF CollationKey(s) > CollationKey(t) THEN 1 ELSE 0

\* typeof item === "object" && item !== null && typeof item.Name === "string"
HasStringName(item) ==
    /\ TypeofObject(item)
    /\ item # JNull
    /\ IsPlainObject(item)       \* an array parsed from JSON has no Name property
    /\ HasKey(item, "Name")
    /\ IsString(Get(item, "Name"))

\* obj.length > 0 && obj.every(item => ...)
hasNameFields(items) ==
    /\ Len(items) > 0
    /\ \A i \in 1..Len(items) : HasStringName(items[i])

NameOf(item) == Get(item, "Name")[2]

\* the comparator of the sort: (a, b) => a.Name.localeCompare(b.Name)
CompareByName(a, b) == localeCompare(NameOf(a), NameOf(b))

RECURSIVE InsertByName(_, _)

\* a variant that puts an element in front of the elements it compares equal to
InsertByNameUnstable(sorted, x) ==
    IF sorted = << >> THEN <<x>>
    ELSE IF CompareByName(sorted[Len(sorted)], x) < 0
         THEN Append(sorted, x)
         ELSE Append(InsertByName(SubSeq(sorted, 1, Len(sorted) - 1), x),
                     sorted[Len(sorted)])

\* Array.prototype.sort is stable: an element goes behind every element
\* that does not compare greater than it
InsertByName(sorted, x) ==
    IF sorted = << >> THEN <<x>>
    ELSE IF CompareByName(sorted[Len(sorted)], x) <= 0
         THEN Append(sorted, x)
         ELSE Append(InsertByName(SubSeq(sorted, 1, Len(sorted) - 1), x),
                     sorted[Len(sorted)])

\* [...obj].sort((a, b) => a.Name.localeCompare(b.Name))
RECURSIVE SortByName(_, _)
SortByName(items, n) ==
    IF n = 0 THEN << >>
    ELSE InsertByName(SortByName(items, n - 1), items[n])

RECURSIVE sortArraysByName(_)

\* obj.map(item => sortArraysByName(item))
MapSort(items) == JArr([i \in 1..Len(items) |-> sortArraysByName(items[i])])

sortArraysByName(obj) ==
    IF IsArray(obj)
    THEN IF hasNameFields(obj[2])
         THEN LET sorted == SortByName(obj[2], Len(obj[2]))
              IN  JArr([i \in 1..Len(sorted) |-> sortArraysByName(sorted[i])])
         ELSE MapSort(obj[2])
    ELSE IF IsPlainObject(obj)
    THEN JObj(Assigned([i \in 1..Len(obj[2]) |->
                 <<obj[2][i][1], sortArraysByName(obj[2][i][2])>>]))
    ELSE obj

(***************************************************************************)
(* Text buffers.  A text is a sequence of tokens; "\n", " " and "  " are   *)
(* white space.  The strings and numbers that occur in texts come from the *)
(* finite alphabets below.                                                 *)
(***************************************************************************)
Strs == {"", "a", "b", "k", "Name", "Content", "new_field_1", "new_field_2", "__proto__"}
Nums == 0..2

Quote(s) == "\"" \o s \o "\""
StrToks == {Quote(s) : s \in Strs}
NumToks == {ToString(n) : n \in Nums}
WhiteSpace == {"\n", " ", "  "}

UnquoteTok(t) == CHOOSE s \in Strs : Quote(s) = t
NumOfTok(t) == CHOOSE n \in Nums : ToString(n) = t

\* gap.repeat(depth) for the gap of two spaces
RECURSIVE Indent(_)
Indent(depth) == IF depth = 0 THEN << >> ELSE <<"  ">> \o Indent(depth - 1)

(***************************************************************************)
(* JSON.stringify(value, null, 2)                                          *)
(***************************************************************************)
RECURSIVE Serialize(_, _)
RECURSIVE SerializeItems(_, _, _)
RECURSIVE SerializeEntries(_, _, _)

SerializeItems(items, depth, n) ==
    IF n = 0 THEN << >>
    ELSE SerializeItems(items, depth, n - 1)
         \o (IF n > 1 THEN <<",", "\n">> ELSE << >>)
         \o Indent(depth) \o Serialize(items[n], depth)

SerializeEntries(entries, depth, n) ==
    IF n = 0 THEN << >>
    ELSE SerializeEntries(entries, depth, n - 1)
         \o (IF n > 1 THEN <<",", "\n">> ELSE << >>)
         \o Indent(depth) \o <<Quote(entries[n][1]), ":", " ">>
         \o Serialize(entries[n][2], depth)

Serialize(v, depth) ==
    CASE v[1] = "array" ->
           IF v[2] = << >> THEN <<"[", "]">>
           ELSE <<"[", "\n">> \o SerializeItems(v[2], depth + 1, Len(v[2]))
                \o <<"\n">> \o Indent(depth) \o <<"]">>
      [] v[1] = "object" ->
           IF v[2] = << >> THEN <<"{", "}">>
           ELSE <<"{", "\n">> \o SerializeEntries(v[2], depth + 1, Len(v[2]))
                \o <<"\n">> \o Indent(depth) \o <<"}">>
      [] v[1] = "string" -> <<Quote(v[2])>>
      [] v[1] = "number" -> <<ToString(v[2])>>
      [] v[1] = "boolean" -> <<v[2]>>
      [] OTHER -> <<"null">>

Stringify2(v) == Serialize(v, 0)

(***************************************************************************)
(* JSON.parse(text): a recursive descent over the tokens that are not      *)
(* white space.  A repeated key keeps its first position and its last      *)
(* value.  The result is [ok, val]; ok = FALSE stands for the SyntaxError, *)
(* which is raised at the first token that cannot continue a JSON text.    *)
(***************************************************************************)
\* the parse failed at token i
ParseFailAt(i) == [ok |-> FALSE, val |-> JNull, next |-> i]
ParseOk(v, next) == [ok |-> TRUE, val |-> v, next |-> next]
TokAt(toks, i) == IF i <= Len(toks) THEN toks[i] ELSE "<eof>"

RECURSIVE ParseValue(_, _)
RECURSIVE ParseElements(_, _, _)
RECURSIVE ParseMembers(_, _, _)

ParseElements(toks, i, acc) ==
    LET r == ParseValue(toks, i)
    IN  IF ~r.ok THEN r
        ELSE IF TokAt(toks, r.next) = ","
             THEN ParseElements(toks, r.next + 1, Append(acc, r.val))
        ELSE IF TokAt(toks, r.next) = "]"
             THEN ParseOk(JArr(Append(acc, r.val)), r.next + 1)
        ELSE ParseFailAt(r.next)

ParseMembers(toks, i, acc) ==
    IF TokAt(toks, i) \notin StrToks THEN ParseFailAt(i)
    ELSE IF TokAt(toks, i + 1) # ":" THEN ParseFailAt(i + 1)
    ELSE LET r == ParseValue(toks, i + 2)
             obj == ObjSet(acc, UnquoteTok(toks[i]), r.val)
         IN  IF ~r.ok THEN r
             ELSE IF TokAt(toks, r.next) = ","
                  THEN ParseMembers(toks, r.next + 1, obj)
             ELSE IF TokAt(toks, r.next) = "}"
                  THEN ParseOk(obj, r.next + 1)
             ELSE ParseFailAt(r.next)

ParseValue(toks, i) ==
    LET t == TokAt(toks, i)
    IN  CASE t = "[" ->
               IF TokAt(toks, i + 1) = "]" THEN ParseOk(JArr(<< >>), i + 2)
               ELSE ParseElements(toks, i + 1, << >>)
          [] t = "{" ->
               IF TokAt(toks, i + 1) = "}" THEN ParseOk(JObj(<< >>), i + 2)
               ELSE ParseMembers(toks, i + 1, JObj(<< >>))
          [] t \in StrToks -> ParseOk(JStr(UnquoteTok(t)), i + 1)
          [] t \in NumToks -> ParseOk(JNum(NumOfTok(t)), i + 1)
          [] t \in {"true", "false"} -> ParseOk(<<"boolean", t>>, i + 1)
          [] t = "null" -> ParseOk(JNull, i + 1)
          [] OTHER -> ParseFailAt(i)

Parse(text) ==
    LET toks == SelectSeq(text, LAMBDA t : t \notin WhiteSpace)
        r == ParseValue(toks, 1)
    IN  IF r.ok /\ r.next = Len(toks) + 1
        THEN [ok |-> TRUE, val |-> r.val]
        ELSE [ok |-> FALSE, val |-> JNull]

(***************************************************************************)
(* The report of a syntax error.  The characters of a text are those of    *)
(* its tokens one after the other, so a token starts at the offset that is *)
(* the length of what precedes it.                                         *)
(***************************************************************************)
\* s.length
RECURSIVE Length(_)
Length(text) == IF text = << >> THEN 0 ELSE Len(Head(text)) + Length(Tail(text))

\* the offset of token i of the text; of the end of the text for i = Len(text) + 1
CharsBefore(text, i) == Length(SubSeq(text, 1, i - 1))

\* s.substring(0, position) for a position at which a token starts or the text ends
Substring(text, position) ==
    LET n == CHOOSE n \in 0..Len(text) :
                 /\ CharsBefore(text, n + 1) <= position
                 /\ n < Len(text) => CharsBefore(text, n + 2) > position
    IN  SubSeq(text, 1, n)

\* split that never splits
SplitNone(text) == <<text>>
\* s.split('\n'): the pieces between the newlines, one more than there are newlines
RECURSIVE Split(_)
Split(text) ==
    IF text = << >> THEN << << >> >>
    ELSE LET rest == Split(Tail(text))
         IN  IF Head(text) = "\n" THEN << << >> >> \o rest
             ELSE << <<Head(text)>> \o Head(rest) >> \o Tail(rest)

\* error.message.match(/at position (\d+)/) for the SyntaxError JSON.parse(text)
\* throws: {} when the message carries no position, else {position}.  The
\* position is the offset of the token the parse stopped at; whether the message
\* carries it is up to the engine, and at the end of the input it never does.
SyntaxErrorMatches(text) ==
    LET at == SelectSeq([i \in 1..Len(text) |-> i], LAMBDA i : text[i] \notin WhiteSpace)
        toks == [k \in 1..Len(at) |-> text[at[k]]]
        r == ParseValue(toks, 1)
    IN  IF r.next > Len(toks) THEN {{}}
        ELSE {{}, {CharsBefore(text, at[r.next])}}

\* a variant whose column counts from 0
validateJsonResponseZeroBased(content, match) ==
    IF Parse(content).ok THEN [valid |-> TRUE, line |-> 0, column |-> 0]
    ELSE IF match # {}
         THEN LET position == CHOOSE p \in match : TRUE
                  lines == Split(Substring(content, position))
              IN  [valid |-> FALSE, line |-> Len(lines),
                   column |-> Length(lines[Len(lines)])]
         ELSE [valid |-> FALSE, line |-> 1, column |-> 1]

\* FileSystemStorage.validateJson(content) when JSON.parse throws an error with
\* that match; a response without line and column has them as 0
validateJsonResponse(content, match) ==
    IF Parse(content).ok THEN [valid |-> TRUE, line |-> 0, column |-> 0]
    ELSE IF match # {}
         THEN LET position == CHOOSE p \in match : TRUE
                  lines == Split(Substring(content, position))
              IN  [valid |-> FALSE, line |-> Len(lines),
                   column |-> Length(lines[Len(lines)]) + 1]
         ELSE [valid |-> FALSE, line |-> 1, column |-> 1]

\* validate(jsonString) of useJsonValidation, likewise
validate(jsonString, match) ==
    IF Parse(jsonString).ok THEN [valid |-> TRUE, line |-> 0, column |-> 0]
    ELSE LET position == CHOOSE p \in match : TRUE
             lines == Split(Substring(jsonString, position))
             line == IF match # {} THEN Len(lines) ELSE 1
             column == IF match # {} THEN Length(lines[Len(lines)]) + 1 ELSE 1
         IN  [valid |-> FALSE, line |-> line, column |-> column]

(***************************************************************************)
(* Paths of the nodes of a tree as the visual editor derives them: a       *)
(* nested block gets `${path}[${index}]` or `${path}.${key}` from the      *)
(* index or key it has in the value being displayed.                       *)
(***************************************************************************)
ChildPath(v, base, i) ==
    IF IsArray(v) THEN IndexPath(base, i - 1) ELSE KeyPath(base, v[2][i][1])
ChildValue(v, i) == IF IsArray(v) THEN v[2][i] ELSE v[2][i][2]
IsContainer(v) == IsArray(v) \/ IsPlainObject(v)

\* the paths of all nodes strictly below v, where v itself is at path base
RECURSIVE NodePaths(_, _)
NodePaths(v, base) ==
    IF ~IsContainer(v) THEN {}
    ELSE UNION {{ChildPath(v, base, i)}
                  \cup NodePaths(ChildValue(v, i), ChildPath(v, base, i))
                : i \in 1..Len(v[2])}

(***************************************************************************)
(* The documents and marked sets the two transforms are applied to.        *)
(***************************************************************************)
ArraysOver(S, n) == {JArr(s) : s \in UNION {[1..k -> S] : k \in 0..n}}
PairsOver(S) == {JArr(<<x>>) : x \in S} \cup {JArr(<<x, y>>) : x \in S, y \in S}

Named(n) == JObj(<< <<"Name", JStr(n)>> >>)
NamedWith(n, v) == JObj(<< <<"Name", JStr(n)>>, <<"k", v>> >>)
Only(k, v) == JObj(<< <<k, v>> >>)

\* elements that do and do not qualify an array for the sort
SortLeaves ==
    {Named("a"), Named("b"), NamedWith("a", JNum(1)),
     Only("Name", JNum(1)), Only("k", JNum(1)), JNull, JNum(1)}
SortFlat == ArraysOver(SortLeaves, MaxFlatLen)
SortInner == ArraysOver({Named("a"), Named("b"), JNum(1)}, MaxLen)
SortWrapped ==
    SortInner \cup {NamedWith(n, x) : n \in {"a", "b"}, x \in SortInner}
              \cup {Only("k", x) : x \in SortInner}
SortOuter == PairsOver(SortWrapped)
SortDeep == {Only("Content", JArr(<<x>>)) : x \in SortWrapped}
\* documents with the key __proto__, as JSON.parse returns them: the key is
\* a property of the object like any other
ProtoObjects ==
    {Only("__proto__", JNum(1)),
     JObj(<< <<"__proto__", JNum(1)>>, <<"Name", JStr("a")>> >>),
     JObj(<< <<"k", JNum(1)>>, <<"__proto__", JArr(<<Named("b"), Named("a")>>)>> >>)}
ProtoDocs ==
    ProtoObjects \cup {JArr(<<x>>) : x \in ProtoObjects}
                 \cup {JArr(<<x, Named("a")>>) : x \in ProtoObjects}
SortDocs == SortFlat \cup SortOuter \cup SortDeep \cup ProtoDocs

DelLeaves == {JNum(1), JNum(2)}
DelObjects ==
    {JObj(<< >>), Only("a", JNum(1)), Only("a", JNum(2)),
     JObj(<< <<"a", JNum(1)>>, <<"b", JNum(2)>> >>)}
DelArrays == ArraysOver(DelLeaves \cup DelObjects, MaxLen)
DelNested == PairsOver(ArraysOver(DelLeaves, MaxLen))
DelRoots ==
    {Only("a", x) : x \in DelArrays \cup DelObjects}
      \cup {JObj(<< <<"a", x>>, <<"b", JNum(1)>> >>) : x \in DelArrays \cup DelObjects}
DelDocs == DelArrays \cup DelNested \cup DelRoots

\* documents whose objects have the empty string among their keys
PathKeys == {"", "a"}
PathInner == {JNum(1), JArr(<<JNum(1)>>)} \cup {Only(k, JNum(1)) : k \in PathKeys}
PathMid == {Only(k, x) : k \in PathKeys, x \in PathInner}
PathDocs ==
    {JObj(<< <<"", x>>, <<"a", y>> >>) : x \in PathInner \cup PathMid, y \in PathInner}
      \cup {Only(k, x) : k \in PathKeys, x \in PathMid}

MarkSets(v) == {M \in SUBSET NodePaths(v, "") : Cardinality(M) <= MaxMarked}

(***************************************************************************)
(* The visual editor.  A JsonBlock is rendered for every entry of a root   *)
(* object (JSONTitle and Location excepted), for a root array as a whole,  *)
(* for every element of an array that holds a container and for every      *)
(* container entry of an object.  Every other value is a JsonField of the  *)
(* block around it.                                                        *)
(***************************************************************************)
\* value.every(item => typeof item !== "object" || item === null)
IsSimpleArray(value) ==
    IsArray(value) /\ \A i \in 1..Len(value[2]) : ~IsContainer(value[2][i])

\* the text a user types into a field, or pastes into a raw editor
TypedTexts == {"2"}

\* Number(val) of a typed text that is the decimal form of a number
LooksNumeric(val) == \E n \in Nums : ToString(n) = val
NumberOf(val) == CHOOSE n \in Nums : ToString(n) = val

\* JsonField: the value handed to onChange for a typed text; a Switch flips
\* a boolean, a number input yields Number(text), a text input yields the
\* number when the text is the canonical form of one and the text otherwise
FieldInputs(value) ==
    IF value[1] = "boolean" THEN {JBool(TRUE), JBool(FALSE)} \ {value}
    ELSE IF value[1] = "number"
    THEN {JNum(NumberOf(t)) : t \in {s \in TypedTexts : LooksNumeric(s)}}
    ELSE {IF LooksNumeric(t) THEN JNum(NumberOf(t)) ELSE JStr(t) : t \in TypedTexts}

\* handleFieldChange(key, newValue) of a block showing value; for an array
\* the key is the decimal index
handleFieldChange(value, key, newValue) ==
    IF IsArray(value)
    THEN JArr([i \in 1..Len(value[2]) |->
                 IF i - 1 = key THEN newValue ELSE value[2][i]])
    ELSE ObjSet(value, key, newValue)

\* handleFieldDelete(key)
handleFieldDelete(value, key) ==
    IF IsArray(value)
    THEN JArr(SubSeq(value[2], 1, key) \o SubSeq(value[2], key + 2, Len(value[2])))
    ELSE ObjDelete(value, key)

\* the empty value of the type of originalValue
EmptyLike(originalValue) ==
    CASE originalValue[1] = "string" -> JStr("")
      [] originalValue[1] = "number" -> JNum(0)
      [] originalValue[1] = "boolean" -> JBool(FALSE)
      [] originalValue[1] = "array" -> JArr(<< >>)
      [] originalValue[1] = "object" -> JObj(<< >>)
      [] OTHER -> JNull

\* handleAddField()
handleAddField(value) ==
    IF IsArray(value)
    THEN IF value[2] = << >> THEN JArr(<<JStr("")>>)
         ELSE LET lastItem == value[2][Len(value[2])]
              IN  IF IsPlainObject(lastItem)
                  THEN JArr(<<JObj([i \in 1..Len(lastItem[2]) |->
                                      <<lastItem[2][i][1], EmptyLike(lastItem[2][i][2])>>])>>
                            \o value[2])
                  ELSE IF lastItem[1] \in {"string", "number", "boolean"}
                  THEN JArr(<<EmptyLike(lastItem)>> \o value[2])
                  ELSE JArr(<<lastItem>> \o value[2])
    ELSE ObjSet(value, "new_field_" \o ToString(Len(value[2])), JStr(""))

\* the values a JsonBlock showing value can hand to its onChange in one edit
RECURSIVE BlockEdits(_)
BlockEdits(value) ==
    IF ~IsContainer(value) THEN {}
    ELSE (IF IsArray(value) THEN {handleAddField(value)} ELSE {})
         \cup UNION {
               IF IsContainer(ChildValue(value, i))
               THEN {handleFieldChange(value, IF IsArray(value) THEN i - 1 ELSE value[2][i][1], nv)
                       : nv \in BlockEdits(ChildValue(value, i))}
               ELSE IF IsArray(value) /\ ~IsSimpleArray(value)
               THEN {}
               ELSE {handleFieldChange(value, IF IsArray(value) THEN i - 1 ELSE value[2][i][1], nv)
                       : nv \in FieldInputs(ChildValue(value, i))}
                    \cup {handleFieldDelete(value, IF IsArray(value) THEN i - 1 ELSE value[2][i][1])}
             : i \in 1..Len(value[2])}

\* the keys of a root object that are not rendered
HiddenKeys == {"JSONTitle", "Location"}

\* the values handleJsonChange can be called with from the visual editor
\* showing jsonContent
VisualEdits(content) ==
    IF IsArray(content) THEN BlockEdits(content)
    ELSE IF IsPlainObject(content)
    THEN UNION {{ObjSet(content, content[2][i][1], nv) : nv \in BlockEdits(content[2][i][2])}
                : i \in {j \in 1..Len(content[2]) : content[2][j][1] \notin HiddenKeys}}
    ELSE {}

\* isProtectedArray() of a block with the given name
isProtectedArray(name, value) == IsArray(value) /\ name \in {"Content", "Root Array"}

\* the display name of the element at index of a complex array; of the name
\* fields the block looks for, Name is the one that occurs in the documents
DisplayName(item, index) ==
    IF IsPlainObject(item) /\ HasKey(item, "Name") /\ IsString(Get(item, "Name"))
         /\ Get(item, "Name") # JStr("")
    THEN Get(item, "Name")[2]
    ELSE "[" \o ToString(index) \o "]"

\* the paths of the blocks inside a block at path showing value whose delete
\* button calls onToggleMark
RECURSIVE NestedMarkable(_, _)
NestedMarkable(value, path) ==
    IF ~IsContainer(value) \/ IsSimpleArray(value) THEN {}
    ELSE UNION {
           LET child == ChildValue(value, i)
               childPath == IF IsArray(value) THEN IndexPath(path, i - 1)
                            ELSE path \o "." \o value[2][i][1]
               childName == IF IsArray(value) THEN DisplayName(child, i - 1)
                            ELSE value[2][i][1]
           IN  IF ~IsArray(value) /\ ~IsContainer(child) THEN {}
               ELSE (IF isProtectedArray(childName, child) THEN {} ELSE {childPath})
                      \cup NestedMarkable(child, childPath)
         : i \in 1..Len(value[2])}

\* the paths toggleMarkForDeletion can be called with from the visual editor
\* showing jsonContent: the path prop of every block whose delete button is
\* enabled and has a non-empty path
Markable(content) ==
    IF IsArray(content) THEN NestedMarkable(content, "root")
    ELSE IF IsPlainObject(content)
    THEN UNION {
           LET key == content[2][i][1]
               value == content[2][i][2]
           IN  (IF isProtectedArray(key, value) \/ key = "" THEN {} ELSE {key})
                 \cup NestedMarkable(value, key)
         : i \in {j \in 1..Len(content[2]) : content[2][j][1] \notin HiddenKeys}}
    ELSE {}

\* the blocks rendered inside a block at path showing value, each with the
\* name it is displayed under, its value and its path prop
RECURSIVE NestedBlocks(_, _)
NestedBlocks(value, path) ==
    IF ~IsContainer(value) \/ IsSimpleArray(value) THEN {}
    ELSE UNION {
           LET child == ChildValue(value, i)
               childPath == IF IsArray(value) THEN IndexPath(path, i - 1)
                            ELSE path \o "." \o value[2][i][1]
               childName == IF IsArray(value) THEN DisplayName(child, i - 1)
                            ELSE value[2][i][1]
           IN  IF ~IsArray(value) /\ ~IsContainer(child) THEN {}
               ELSE {[name |-> childName, value |-> child, path |-> childPath]}
                      \cup NestedBlocks(child, childPath)
         : i \in 1..Len(value[2])}

\* the blocks of the visual editor showing jsonContent: every one of them
\* has a delete button in its header
Blocks(content) ==
    IF IsArray(content)
    THEN {[name |-> "Root Array", value |-> content, path |-> "root"]}
           \cup NestedBlocks(content, "root")
    ELSE IF IsPlainObject(content)
    THEN UNION {
           LET key == content[2][i][1]
               value == content[2][i][2]
           IN  {[name |-> key, value |-> value, path |-> key]}
                 \cup NestedBlocks(value, key)
         : i \in {j \in 1..Len(content[2]) : content[2][j][1] \notin HiddenKeys}}
    ELSE {}

(***************************************************************************)
(* The storage of the server.                                              *)
(***************************************************************************)
Files == {"a.json", "b.json"}

\* validateJson(content).valid
validateJson(content) == Parse(content).ok

\* loadJsonFile(filename): the response, or a failure when the text of the
\* file does not parse
loadJsonFile(disk, filename) ==
    [ok |-> Parse(disk[filename]).ok,
     content |-> Parse(disk[filename]).val,
     raw |-> disk[filename]]

\* what stands for the text of a backup file that does not exist
NoCopy == << >>

\* the name of a file of the backup directory: `${stem}_${timestamp}.json`
\* for kind "save", `${stem}_pre-restore_${timestamp}.json` for "pre-restore"
BackupName(kind, filename, timestamp) ==
    [kind |-> kind, file |-> filename, second |-> timestamp]

\* the text of the backup file of that name, NoCopy when there is none
BackupContent(copies, pre, name) ==
    IF name.kind = "save" THEN copies[<<name.file, name.second>>]
    ELSE pre[<<name.file, name.second>>]

\* a variant that writes the file without validating the content first
saveJsonFileUnvalidated(disk, copies, filename, content, timestamp) ==
    [ok |-> validateJson(content),
     disk |-> [disk EXCEPT ![filename] = content],
     copies |-> [copies EXCEPT ![<<filename, timestamp>>] = disk[filename]],
     backupPath |-> BackupName("save", filename, timestamp)]

\* saveJsonFile(filename, content) at the second timestamp: the outcome, the
\* files and backup copies it leaves and the backupPath of its response; the
\* files of the model exist and the file system does not fail, so that the
\* copy is always written
saveJsonFile(disk, copies, filename, content, timestamp) ==
    IF ~validateJson(content)
    THEN [ok |-> FALSE, disk |-> disk, copies |-> copies,
          backupPath |-> BackupName("save", filename, timestamp)]
    ELSE [ok |-> TRUE,
          disk |-> [disk EXCEPT ![filename] = content],
          copies |-> [copies EXCEPT ![<<filename, timestamp>>] = disk[filename]],
          backupPath |-> BackupName("save", filename, timestamp)]

\* a variant that restores without copying the current file first
restoreBackupNoCopy(disk, copies, pre, filename, backupFilename, timestamp) ==
    LET backupContent == BackupContent(copies, pre, backupFilename)
    IN  IF backupContent = NoCopy \/ ~validateJson(backupContent)
        THEN [ok |-> FALSE, disk |-> disk, pre |-> pre, content |-> backupContent,
              backupPath |-> BackupName("pre-restore", filename, timestamp)]
        ELSE [ok |-> TRUE,
              disk |-> [disk EXCEPT ![filename] = backupContent],
              pre |-> pre,
              content |-> backupContent,
              backupPath |-> BackupName("pre-restore", filename, timestamp)]

\* restoreBackup(filename, backupFilename) at the second timestamp: it fails
\* when the backup file cannot be read or does not hold JSON; otherwise it
\* copies the current file to the pre-restore backup of that second and
\* writes the backup's text to the file
restoreBackup(disk, copies, pre, filename, backupFilename, timestamp) ==
    LET backupContent == BackupContent(copies, pre, backupFilename)
    IN  IF backupContent = NoCopy \/ ~validateJson(backupContent)
        THEN [ok |-> FALSE, disk |-> disk, pre |-> pre, content |-> backupContent,
              backupPath |-> BackupName("pre-restore", filename, timestamp)]
        ELSE [ok |-> TRUE,
              disk |-> [disk EXCEPT ![filename] = backupContent],
              pre |-> [pre EXCEPT ![<<filename, timestamp>>] = disk[filename]],
              content |-> backupContent,
              backupPath |-> BackupName("pre-restore", filename, timestamp)]

(***************************************************************************)
(* The files of the data directory, and the texts that reach the session   *)
(* and the server from outside.                                            *)
(***************************************************************************)
DocA == JObj(<< <<"k", JNum(1)>>, <<"Content", JArr(<<Named("b"), Named("a")>>)>> >>)
DocB == JArr(<<Only("k", JNum(1))>>)

\* JSON.stringify(v): the text without white space
Compact(v) == SelectSeq(Stringify2(v), LAMBDA t : t \notin WhiteSpace)

\* a.json is stored as the editor writes it, b.json in one line
InitialFiles == [f \in Files |-> IF f = "a.json" THEN Stringify2(DocA) ELSE Compact(DocB)]

InvalidText == <<"{", "invalid">>
AltText == Compact(Only("a", JArr(<<Named("b"), Named("a")>>)))

\* the texts typed into the raw editor
RawTexts == {InvalidText, AltText}
\* the texts posted to /api/files/save by another client
ApiTexts == {InvalidText}


(***************************************************************************)
(* State.                                                                  *)
(***************************************************************************)
VARIABLES
    doc,        \* the tree a transform is applied to
    marks,      \* the marked set it is applied with
    result,     \* the value the transform returned
    op,         \* which transforms have been applied to doc so far
    selectedFile,        \* the name of the selected file, or "none"
    isRawMode,
    hasUnsavedChanges,   \* dirty
    jsonContent,         \* structuredValue
    rawContent,          \* rawText
    validationError,     \* "none" or the kind of error shown
    markedForDeletion,   \* the marked set
    validateReq,    \* the validate call whose callbacks will run: {} or {[content, marked]}
    saveReq,        \* the save request in flight: {} or {[filename, content, state]}
    saveStatus,     \* saveMutation.status: "idle", "pending", "success" or "error"
    cache,          \* the load response cached for each file: {} or {[content, raw]}
    loading,        \* the files with a load request in flight
    files,          \* the text of every file of the data directory
    backups,        \* the text of the backup copy of <<file, second>>, or NoCopy
    preRestore,     \* the text of the pre-restore copy of <<file, second>>, or NoCopy
    now,            \* the second at which the server read its clock last
    edits,          \* how many edits were made
    saves,          \* how many times Save was clicked
    calls,          \* how many requests other clients posted, where they are counted
    discardAccepted,    \* history: the confirm dialog of handleFileSelect was
                        \* accepted for the unsaved changes the buffers hold
    atSave,         \* history: {[raw, json, dirty, marked]} as Save was clicked, {}
                    \* once anything but the handlers of that save changed them
    sortRan,        \* history: the last step called sortArraysByName
    lastSave,       \* history: the call of saveJsonFile or restoreBackup the last
                    \* step made: {} or {[call, filename, content, ok, backupPath]}
    lastClick       \* history: the click on a file or on a delete button the
                    \* last step handled: {} or {[handler, name, path, confirm]},
                    \* for a delete button with the marked set before the click

pureVars == <<doc, marks, result, op>>
sessionVars ==
    <<selectedFile, isRawMode, hasUnsavedChanges, jsonContent, rawContent,
      validationError, markedForDeletion, validateReq, saveReq, saveStatus, cache,
      loading>>
serverVars == <<files, backups, preRestore, now>>
historyVars == <<edits, saves, calls, discardAccepted, atSave, sortRan, lastSave, lastClick>>
editorVars == <<sessionVars, serverVars, historyVars>>
vars == <<pureVars, editorVars>>

\* the state of the page after mounting, over the initial data directory
EditorInit ==
    /\ selectedFile = "none"
    /\ isRawMode = FALSE
    /\ hasUnsavedChanges = FALSE
    /\ jsonContent = JNull
    /\ rawContent = << >>
    /\ validationError = "none"
    /\ markedForDeletion = {}
    /\ validateReq = {}
    /\ saveReq = {}
    /\ saveStatus = "idle"
    /\ cache = [f \in Files |-> {}]
    /\ loading = {}
    /\ files = InitialFiles
    /\ backups = [b \in Files \X (0..MaxClock) |-> NoCopy]
    /\ preRestore = [b \in Files \X (0..MaxClock) |-> NoCopy]
    /\ now = 0
    /\ edits = 0
    /\ saves = 0
    /\ calls = 0
    /\ discardAccepted = FALSE
    /\ atSave = {}
    /\ sortRan = FALSE
    /\ lastSave = {}
    /\ lastClick = {}

(***************************************************************************)
(* The two transforms applied to generated inputs.                         *)
(***************************************************************************)
PureInit ==
    /\ \/ doc \in DelDocs \cup PathDocs /\ marks \in MarkSets(doc)
       \/ doc \in SortDocs /\ marks = {}
    /\ result = JNull
    /\ op = "input"
    /\ EditorInit

\* parsed = removeMarkedItems(parsed)
ApplyRemove ==
    /\ op = "input"
    /\ result' = removeMarkedItems(doc, "", marks)
    /\ op' = "remove"
    /\ UNCHANGED <<doc, marks, editorVars>>

\* the same marked set applied to the output of the first application
ApplyRemoveAgain ==
    /\ op = "remove"
    /\ result' = removeMarkedItems(result, "", marks)
    /\ op' = "removeTwice"
    /\ UNCHANGED <<doc, marks, editorVars>>

\* sortedParsed = sortArraysByName(parsed)
ApplySort ==
    /\ op = "input"
    /\ result' = sortArraysByName(doc)
    /\ op' = "sort"
    /\ UNCHANGED <<doc, marks, editorVars>>

\* sortArraysByName applied to the output of the first application
ApplySortAgain ==
    /\ op = "sort"
    /\ result' = sortArraysByName(result)
    /\ op' = "sortTwice"
    /\ UNCHANGED <<doc, marks, editorVars>>

PureNext == ApplyRemove \/ ApplyRemoveAgain \/ ApplySort \/ ApplySortAgain

SpecPure == PureInit /\ [][PureNext]_vars

(***************************************************************************)
(* The two validators applied to generated buffers.                        *)
(***************************************************************************)
BufToks == {"{", "}", "[", "]", "1", ",", "\n", "  "}

\* the text without its token i
Drop(text, i) == SubSeq(text, 1, i - 1) \o SubSeq(text, i + 1, Len(text))

\* short buffers, and an indented document with one token missing
ValidateTexts ==
    UNION {{SubSeq(text, 1, n) : text \in [1..n -> BufToks]} : n \in 1..MaxBufLen}
      \cup {Drop(Stringify2(DocB), i) : i \in 1..Len(Stringify2(DocB))}
      \cup {Stringify2(DocB)}

ValidateInit ==
    /\ doc \in ValidateTexts
    /\ marks = {}
    /\ result = JNull
    /\ op = "buffer"
    /\ EditorInit

\* the buffer handed to the client hook and posted to /api/validate
ApplyValidate ==
    /\ op = "buffer"
    /\ \E match \in (IF Parse(doc).ok THEN {{}} ELSE SyntaxErrorMatches(doc)) :
          result' = [match |-> match,
                     server |-> validateJsonResponse(doc, match),
                     client |-> validate(doc, match)]
    /\ op' = "validated"
    /\ UNCHANGED <<doc, marks, editorVars>>

ValidateNext == ApplyValidate

SpecValidate == ValidateInit /\ [][ValidateNext]_vars

(***************************************************************************)
(* The editing session.  A confirm dialog that is declined returns from    *)
(* its handler before any assignment, so the actions are the handlers with *)
(* the dialog accepted.  The query client keeps one response per file and  *)
(* hands it to the page as soon as the file is selected again; the         *)
(* callbacks passed to validateMutation.mutate run for the latest call     *)
(* only, and saveMutation's mutationFn reads selectedFile as it is when    *)
(* saveMutation.mutate is called.                                          *)
(***************************************************************************)
\* a variant in which clearing leaves the marked set as it is
clearMarkedForDeletionKeeps == markedForDeletion

\* clearMarkedForDeletion(): what it stores in the marked set
clearMarkedForDeletion == {}

\* the four variables of the document session, as a record
Session ==
    [raw |-> rawContent, json |-> jsonContent,
     dirty |-> hasUnsavedChanges, marked |-> markedForDeletion]

\* contentLoading: the selected file has a first load in flight
contentLoading == selectedFile \in loading /\ cache[selectedFile] = {}

\* the visual editor is on screen
VisualShown == selectedFile # "none" /\ ~contentLoading /\ ~isRawMode
\* the raw editor is on screen
RawShown == selectedFile # "none" /\ ~contentLoading /\ isRawMode

\* a variant in which the switch goes ahead whatever the answer
confirmDiscardIgnored(accept) == TRUE

\* if (hasUnsavedChanges) { if (!confirm(...)) return; }: the handler goes on
\* when there is nothing to discard or the dialog was accepted
confirmDiscard(accept) == ~hasUnsavedChanges \/ accept

\* the accepted dialogs are recorded in the runs of SpecRestore
AcceptedAfter(accepted) == IF op = "restore" THEN accepted ELSE discardAccepted

\* handleFileSelect(file), with the answer given to the confirm dialog when
\* there are unsaved changes, and with the effects its render runs: the
\* marked set is cleared when the name changed, the buffers are initialised
\* when the file has a cached response, and a load is started when it has
\* none; selecting the selected file in visual mode leaves every variable as
\* it is
handleFileSelect(file, accept) ==
    /\ file # selectedFile \/ isRawMode
    /\ accept \/ hasUnsavedChanges
    /\ lastClick' = {[handler |-> "handleFileSelect", name |-> file, path |-> "",
                      confirm |-> IF ~hasUnsavedChanges THEN "none"
                                  ELSE IF accept THEN "accepted" ELSE "declined"]}
    /\ IF ~confirmDiscard(accept)
       THEN UNCHANGED <<selectedFile, isRawMode, hasUnsavedChanges, jsonContent,
                        rawContent, validationError, markedForDeletion, loading, atSave,
                        discardAccepted>>
       ELSE /\ selectedFile' = file
            /\ isRawMode' = FALSE
            /\ discardAccepted' =
                 AcceptedAfter(hasUnsavedChanges /\ (file = selectedFile \/ cache[file] = {}))
            /\ IF file = selectedFile
               THEN UNCHANGED <<hasUnsavedChanges, jsonContent, rawContent,
                                validationError, markedForDeletion, loading>>
               ELSE /\ markedForDeletion' = clearMarkedForDeletion
                    /\ IF cache[file] # {}
                       THEN LET fileContent == CHOOSE r \in cache[file] : TRUE
                            IN  /\ jsonContent' = fileContent.content
                                /\ rawContent' = fileContent.raw
                                /\ validationError' = "none"
                                /\ hasUnsavedChanges' = FALSE
                                /\ UNCHANGED loading
                       ELSE /\ loading' = loading \cup {file}
                            /\ UNCHANGED <<hasUnsavedChanges, jsonContent, rawContent,
                                           validationError>>
            /\ atSave' = IF file = selectedFile THEN atSave ELSE {}
    /\ sortRan' = FALSE
    /\ lastSave' = {}
    /\ UNCHANGED <<pureVars, validateReq, saveReq, saveStatus, cache, serverVars, edits, saves, calls>>

\* a variant in which every response initialises the buffers, whichever file
\* is selected when it arrives
LoadSuccessAnyFile(file) ==
    /\ file \in loading
    /\ loadJsonFile(files, file).ok
    /\ LET fileContent == [content |-> loadJsonFile(files, file).content,
                           raw |-> loadJsonFile(files, file).raw]
       IN  /\ cache' = [cache EXCEPT ![file] = {fileContent}]
           /\ loading' = loading \ {file}
           /\ jsonContent' = fileContent.content
           /\ rawContent' = fileContent.raw
           /\ validationError' = "none"
           /\ hasUnsavedChanges' = FALSE
           /\ discardAccepted' = AcceptedAfter(FALSE)
           /\ atSave' = {}
    /\ sortRan' = FALSE
    /\ lastClick' = {}
    /\ lastSave' = {}
    /\ UNCHANGED <<pureVars, selectedFile, isRawMode, markedForDeletion, validateReq, saveReq, saveStatus,
                   serverVars, edits, saves, calls>>
\* the response of a load arrives: it is cached, and useEffect([fileContent])
\* initialises the buffers when the file is the selected one and the response
\* is not the one the cache held already
LoadSuccess(file) ==
    /\ file \in loading
    /\ loadJsonFile(files, file).ok
    /\ LET fileContent == [content |-> loadJsonFile(files, file).content,
                           raw |-> loadJsonFile(files, file).raw]
       IN  /\ cache' = [cache EXCEPT ![file] = {fileContent}]
           /\ loading' = loading \ {file}
           /\ IF file = selectedFile /\ cache[file] # {fileContent}
              THEN /\ jsonContent' = fileContent.content
                   /\ rawContent' = fileContent.raw
                   /\ validationError' = "none"
                   /\ hasUnsavedChanges' = FALSE
                   /\ discardAccepted' = AcceptedAfter(FALSE)
                   /\ atSave' = {}
              ELSE UNCHANGED <<jsonContent, rawContent, validationError,
                               hasUnsavedChanges, discardAccepted, atSave>>
    /\ sortRan' = FALSE
    /\ lastClick' = {}
    /\ lastSave' = {}
    /\ UNCHANGED <<pureVars, selectedFile, isRawMode, markedForDeletion, validateReq, saveReq, saveStatus,
                   serverVars, edits, saves, calls>>

\* a load request fails: nothing is cached and no handler of the page runs
LoadFailure(file) ==
    /\ file \in loading
    /\ loading' = loading \ {file}
    /\ sortRan' = FALSE
    /\ lastClick' = {}
    /\ lastSave' = {}
    /\ UNCHANGED <<pureVars, selectedFile, isRawMode, hasUnsavedChanges, jsonContent, rawContent,
                   validationError, markedForDeletion, validateReq, saveReq, saveStatus, cache,
                   serverVars, edits, saves, calls, discardAccepted, atSave>>

\* how many edits are made at most: MaxEdits, and MaxSeqEdits in the runs of
\* SpecInFlight and SpecProtect
EditBudget == IF op \in {"inflight", "protect"} THEN MaxSeqEdits ELSE MaxEdits

\* what handleJsonChange stores in rawContent
RawOfJsonCompact(newContent) == Compact(newContent)
RawOfJson(newContent) == Stringify2(newContent)

\* handleJsonChange(newContent), called by an edit in the visual editor
handleJsonChange(newContent) ==
    /\ VisualShown
    /\ edits < EditBudget
    /\ jsonContent' = newContent
    /\ rawContent' = RawOfJson(newContent)
    /\ hasUnsavedChanges' = TRUE
    /\ validationError' = "none"
    /\ edits' = edits + 1
    /\ UNCHANGED <<saves, calls>>
    /\ discardAccepted' = AcceptedAfter(FALSE)
    /\ atSave' = {}
    /\ sortRan' = FALSE
    /\ lastClick' = {}
    /\ lastSave' = {}
    /\ UNCHANGED <<pureVars, selectedFile, isRawMode, markedForDeletion, validateReq, saveReq, saveStatus,
                   cache, loading, serverVars>>

\* the JSON texts typed into the raw editor of a block
BlockRawTexts == {<<"{", "}">>, <<"[", "]">>}

\* the value a block showing value at path hands to its onChange when the
\* block at path target below it hands newValue to its own: every block on
\* the way calls handleFieldChange with the key or index of its child
RECURSIVE NestedOnChange(_, _, _, _)
NestedOnChange(value, path, target, newValue) ==
    IF ~IsContainer(value) THEN value
    ELSE LET childPath(i) == IF IsArray(value) THEN IndexPath(path, i - 1)
                             ELSE path \o "." \o value[2][i][1]
             newChild(i) ==
                 IF childPath(i) = target THEN newValue
                 ELSE NestedOnChange(ChildValue(value, i), childPath(i), target, newValue)
         IN  IF IsArray(value)
             THEN JArr([i \in 1..Len(value[2]) |-> newChild(i)])
             ELSE JObj([i \in 1..Len(value[2]) |-> <<value[2][i][1], newChild(i)>>])

\* the content handed to handleJsonChange when the block hands newValue to
\* its onChange
BlockOnChange(content, block, newValue) ==
    IF IsArray(content)
    THEN IF block.path = "root" THEN newValue
         ELSE NestedOnChange(content, "root", block.path, newValue)
    ELSE JObj([i \in 1..Len(content[2]) |->
                 LET key == content[2][i][1]
                 IN  <<key, IF key = block.path THEN newValue
                            ELSE NestedOnChange(content[2][i][2], key, block.path,
                                                newValue)>>])

\* handleRawSave() of a block in raw edit mode whose editor holds the text:
\* an invalid text changes nothing
handleRawSave(block, text) ==
    /\ IsContainer(block.value)
    /\ Parse(text).ok
    /\ handleJsonChange(BlockOnChange(jsonContent, block, Parse(text).val))

\* a variant that re-parses the text into jsonContent as it is typed
handleRawChangeReparsing(newRaw) ==
    /\ RawShown
    /\ edits < EditBudget
    /\ rawContent' = newRaw
    /\ jsonContent' = IF Parse(newRaw).ok THEN Parse(newRaw).val ELSE jsonContent
    /\ hasUnsavedChanges' = TRUE
    /\ validationError' = "none"
    /\ edits' = edits + 1
    /\ UNCHANGED <<saves, calls>>
    /\ discardAccepted' = AcceptedAfter(FALSE)
    /\ atSave' = {}
    /\ sortRan' = FALSE
    /\ lastClick' = {}
    /\ lastSave' = {}
    /\ UNCHANGED <<pureVars, selectedFile, isRawMode, markedForDeletion, validateReq,
                   saveReq, saveStatus, cache, loading, serverVars>>
\* handleRawChange(newRaw), called by typing in the raw editor
handleRawChange(newRaw) ==
    /\ RawShown
    /\ edits < EditBudget
    /\ rawContent' = newRaw
    /\ hasUnsavedChanges' = TRUE
    /\ validationError' = "none"
    /\ edits' = edits + 1
    /\ UNCHANGED <<saves, calls>>
    /\ discardAccepted' = AcceptedAfter(FALSE)
    /\ atSave' = {}
    /\ sortRan' = FALSE
    /\ lastClick' = {}
    /\ lastSave' = {}
    /\ UNCHANGED <<pureVars, selectedFile, isRawMode, jsonContent, markedForDeletion, validateReq,
                   saveReq, saveStatus, cache, loading, serverVars>>

\* a variant of the button that is never disabled
DeleteDisabledNever(block) == FALSE

\* disabled={isProtectedArray()} of the delete button of a block
DeleteDisabled(block) == isProtectedArray(block.name, block.value)

\* how many paths are marked at most: MaxToggled in the runs that go on to
\* edit and save, MaxMarked in the runs of SpecToggle, which only mark
MarkBudget == IF op = "toggle" THEN MaxMarked ELSE MaxToggled

\* a variant that marks the path and never unmarks it
toggleMarkForDeletionOnlyMarks(path) ==
    /\ VisualShown
    /\ path \in markedForDeletion \/ Cardinality(markedForDeletion) < MarkBudget
    /\ markedForDeletion' = markedForDeletion \cup {path}
    /\ atSave' = {}
    /\ sortRan' = FALSE
    /\ lastSave' = {}
    /\ UNCHANGED <<pureVars, selectedFile, isRawMode, hasUnsavedChanges, jsonContent, rawContent,
                   validationError, validateReq, saveReq, saveStatus, cache, loading, serverVars,
                   edits, saves, calls, discardAccepted>>
\* toggleMarkForDeletion(path), called by the delete button of a block
toggleMarkForDeletion(path) ==
    /\ VisualShown
    /\ path \in markedForDeletion \/ Cardinality(markedForDeletion) < MarkBudget
    /\ markedForDeletion' =
          IF path \in markedForDeletion
          THEN markedForDeletion \ {path}
          ELSE markedForDeletion \cup {path}
    /\ atSave' = {}
    /\ sortRan' = FALSE
    /\ lastSave' = {}
    /\ UNCHANGED <<pureVars, selectedFile, isRawMode, hasUnsavedChanges, jsonContent, rawContent,
                   validationError, validateReq, saveReq, saveStatus, cache, loading, serverVars,
                   edits, saves, calls, discardAccepted>>

\* a click on the delete button of a block of the visual editor: a disabled
\* button does not call its handler; handleDeleteClick() calls onToggleMark
\* with the path of the block, which is not empty for any block of the
\* documents edited here, so that onDelete, the fallback, is not called
handleDeleteClick(block) ==
    /\ VisualShown
    /\ block.path # ""
    /\ lastClick' = {[handler |-> "handleDeleteClick", name |-> block.name,
                      path |-> block.path, marked |-> markedForDeletion,
                      confirm |-> IF DeleteDisabled(block) THEN "disabled" ELSE "none"]}
    /\ IF DeleteDisabled(block)
       THEN /\ sortRan' = FALSE
            /\ lastSave' = {}
            /\ UNCHANGED <<pureVars, sessionVars, serverVars, edits, saves, calls, discardAccepted, atSave>>
       ELSE toggleMarkForDeletion(block.path)

\* toggleMode(mode), for the clicks that change the mode: a click on the
\* button of the mode shown, or on Raw JSON while a validation error is
\* shown, leaves every variable as it is
toggleMode(mode) ==
    /\ selectedFile # "none"
    /\ ~(mode = "raw" /\ validationError # "none")
    /\ isRawMode' = (mode = "raw")
    /\ isRawMode' # isRawMode
    /\ sortRan' = FALSE
    /\ lastClick' = {}
    /\ lastSave' = {}
    /\ UNCHANGED <<pureVars, selectedFile, hasUnsavedChanges, jsonContent, rawContent,
                   validationError, markedForDeletion, validateReq, saveReq, saveStatus, cache,
                   loading, serverVars, edits, saves, calls, discardAccepted, atSave>>

\* handleSave(), the confirm accepted when paths are marked: the Save button
\* is enabled for a selected file with unsaved changes and no save pending
handleSave ==
    /\ selectedFile # "none"
    /\ hasUnsavedChanges
    /\ saveStatus # "pending"
    /\ saves < MaxSaves
    /\ saves' = saves + 1
    /\ UNCHANGED <<calls, discardAccepted>>
    /\ validateReq' = {[content |-> rawContent, marked |-> markedForDeletion]}
    /\ atSave' = {Session}
    /\ sortRan' = FALSE
    /\ lastClick' = {}
    /\ lastSave' = {}
    /\ UNCHANGED <<pureVars, selectedFile, isRawMode, hasUnsavedChanges, jsonContent, rawContent,
                   validationError, markedForDeletion, saveReq, saveStatus, cache, loading,
                   serverVars, edits>>

\* a variant of the pipeline that sorts before it deletes
SavePipelineSortFirst(contentToSave, marked) ==
    LET sortedParsed == sortArraysByName(Parse(contentToSave).val)
    IN  IF marked # {} THEN removeMarkedItems(sortedParsed, "", marked) ELSE sortedParsed

\* the value handleSave's onSuccess computes from the captured text and set
SavePipeline(contentToSave, marked) ==
    LET parsed == Parse(contentToSave).val
    IN  sortArraysByName(IF marked # {} THEN removeMarkedItems(parsed, "", marked)
                         ELSE parsed)

\* validateMutation's onSuccess with validation.valid
ValidateValid ==
    /\ validateReq # {}
    /\ LET req == CHOOSE r \in validateReq : TRUE
           sortedParsed == SavePipeline(req.content, req.marked)
           sortedContent == Stringify2(sortedParsed)
       IN  /\ validateJson(req.content)
           /\ markedForDeletion' = IF req.marked # {} THEN clearMarkedForDeletion
                                  ELSE markedForDeletion
           /\ jsonContent' = sortedParsed
           /\ rawContent' = sortedContent
           /\ validationError' = "none"
           /\ saveStatus' = "pending"
           /\ saveReq' = {[filename |-> selectedFile, content |-> sortedContent,
                           state |-> "sent"]}
    /\ validateReq' = {}
    /\ sortRan' = TRUE
    /\ lastClick' = {}
    /\ lastSave' = {}
    /\ UNCHANGED <<pureVars, selectedFile, isRawMode, hasUnsavedChanges, cache, loading,
                   serverVars, edits, saves, calls, discardAccepted, atSave>>

\* validateMutation's onSuccess with validation.valid false
ValidateInvalid ==
    /\ validateReq # {}
    /\ LET req == CHOOSE r \in validateReq : TRUE
       IN  ~validateJson(req.content)
    /\ validationError' = "invalid"
    /\ validateReq' = {}
    /\ sortRan' = FALSE
    /\ lastClick' = {}
    /\ lastSave' = {}
    /\ UNCHANGED <<pureVars, selectedFile, isRawMode, hasUnsavedChanges, jsonContent, rawContent,
                   markedForDeletion, saveReq, saveStatus, cache, loading, serverVars, edits, saves, calls, discardAccepted, atSave>>

\* validateMutation's onError: the request failed
ValidateFailure ==
    /\ validateReq # {}
    /\ validationError' = "none"
    /\ validateReq' = {}
    /\ sortRan' = FALSE
    /\ lastClick' = {}
    /\ lastSave' = {}
    /\ UNCHANGED <<pureVars, selectedFile, isRawMode, hasUnsavedChanges, jsonContent, rawContent,
                   markedForDeletion, saveReq, saveStatus, cache, loading, serverVars, edits, saves, calls, discardAccepted, atSave>>

\* POST /api/files/save of the session's request reaches the server, which
\* reads its clock: at the second it read it last, or at a later one
SaveHandled ==
    /\ saveReq # {}
    /\ \E second \in now..MaxClock :
        LET req == CHOOSE r \in saveReq : TRUE
            res == saveJsonFile(files, backups, req.filename, req.content, second)
        IN /\ req.state = "sent"
           /\ now' = second
           /\ files' = res.disk
           /\ backups' = res.copies
           /\ saveReq' = {[req EXCEPT !.state = IF res.ok THEN "written" ELSE "rejected"]}
           /\ lastSave' = {[call |-> "save", filename |-> req.filename,
                            content |-> req.content, ok |-> res.ok,
                            backupPath |-> res.backupPath]}
    /\ sortRan' = FALSE
    /\ lastClick' = {}
    /\ UNCHANGED <<pureVars, preRestore, saveStatus, selectedFile, isRawMode, hasUnsavedChanges, jsonContent, rawContent,
                   validationError, markedForDeletion, validateReq, cache, loading,
                   edits, saves, calls, discardAccepted, atSave>>

\* saveMutation's onSuccess
SaveSuccess ==
    /\ saveReq # {}
    /\ (CHOOSE r \in saveReq : TRUE).state = "written"
    /\ hasUnsavedChanges' = FALSE
    /\ discardAccepted' = AcceptedAfter(FALSE)
    /\ saveReq' = {}
    /\ saveStatus' = "success"
    /\ atSave' = {}
    /\ sortRan' = FALSE
    /\ lastClick' = {}
    /\ lastSave' = {}
    /\ UNCHANGED <<pureVars, selectedFile, isRawMode, jsonContent, rawContent, validationError,
                   markedForDeletion, validateReq, cache, loading, serverVars, edits, saves, calls>>

\* saveMutation's onError: the server rejected the request, or the request or
\* its response was lost
SaveFailure ==
    /\ saveReq # {}
    /\ saveReq' = {}
    /\ saveStatus' = "error"
    /\ atSave' = {}
    /\ sortRan' = FALSE
    /\ lastClick' = {}
    /\ lastSave' = {}
    /\ UNCHANGED <<pureVars, selectedFile, isRawMode, hasUnsavedChanges, jsonContent, rawContent,
                   validationError, markedForDeletion, validateReq, cache, loading,
                   serverVars, edits, saves, calls, discardAccepted>>

\* the requests of other clients are counted, and at most MaxCalls are made,
\* in the runs of the storage alone; at most MaxPosts in the runs of
\* SpecRestore
CallsLeft == (op = "storage" => calls < MaxCalls) /\ (op = "restore" => calls < MaxPosts)
CallsAfter == IF op \in {"storage", "restore"} THEN calls + 1 ELSE calls

\* another client posts content for a file to /api/files/save, before the
\* session selects its first file
ApiSave(filename, content) ==
    /\ selectedFile = "none"
    /\ CallsLeft
    /\ calls' = CallsAfter
    /\ \E second \in now..MaxClock :
        LET res == saveJsonFile(files, backups, filename, content, second)
        IN /\ now' = second
           /\ files' = res.disk
           /\ backups' = res.copies
           /\ lastSave' = {[call |-> "save", filename |-> filename, content |-> content,
                            ok |-> res.ok, backupPath |-> res.backupPath]}
    /\ sortRan' = FALSE
    /\ lastClick' = {}
    /\ UNCHANGED <<pureVars, sessionVars, preRestore, edits, saves, discardAccepted, atSave>>

\* the names of the files of the backup directory
BackupFiles ==
    {BackupName("save", k[1], k[2]) : k \in {j \in DOMAIN backups : backups[j] # NoCopy}}
      \cup {BackupName("pre-restore", k[1], k[2]) :
                k \in {j \in DOMAIN preRestore : preRestore[j] # NoCopy}}

\* a client posts a file name and the name of a backup file to
\* /api/backups/restore, before the session selects its first file
ApiRestore(filename, backupFilename) ==
    /\ selectedFile = "none"
    /\ CallsLeft
    /\ calls' = CallsAfter
    /\ \E second \in now..MaxClock :
        LET res == restoreBackup(files, backups, preRestore, filename, backupFilename,
                                 second)
        IN /\ now' = second
           /\ files' = res.disk
           /\ preRestore' = res.pre
           /\ lastSave' = {[call |-> "restore", filename |-> filename,
                            content |-> res.content, ok |-> res.ok,
                            backupPath |-> res.backupPath]}
    /\ sortRan' = FALSE
    /\ lastClick' = {}
    /\ UNCHANGED <<pureVars, sessionVars, backups, edits, saves, discardAccepted, atSave>>

Init ==
    /\ doc = JNull /\ marks = {} /\ result = JNull /\ op = "editor"
    /\ EditorInit

Next ==
    \/ \E file \in Files, accept \in BOOLEAN : handleFileSelect(file, accept)
    \/ \E file \in Files : LoadSuccess(file)
    \/ \E file \in Files : LoadFailure(file)
    \/ \E newContent \in VisualEdits(jsonContent) : handleJsonChange(newContent)
    \/ \E newRaw \in RawTexts : handleRawChange(newRaw)
    \/ \E block \in Blocks(jsonContent) : handleDeleteClick(block)
    \/ \E mode \in {"visual", "raw"} : toggleMode(mode)
    \/ handleSave
    \/ ValidateValid
    \/ ValidateInvalid
    \/ ValidateFailure
    \/ SaveHandled
    \/ SaveSuccess
    \/ SaveFailure
    \/ \E filename \in Files, content \in ApiTexts : ApiSave(filename, content)

Spec == Init /\ [][Next]_vars

\* the runs that select files and click delete buttons, and neither edit nor
\* save
ToggleInit ==
    /\ doc = JNull /\ marks = {} /\ result = JNull /\ op = "toggle"
    /\ EditorInit

ToggleNext ==
    \/ \E file \in Files, accept \in BOOLEAN : handleFileSelect(file, accept)
    \/ \E file \in Files : LoadSuccess(file)
    \/ \E file \in Files : LoadFailure(file)
    \/ \E block \in Blocks(jsonContent) : handleDeleteClick(block)
    \/ \E mode \in {"visual", "raw"} : toggleMode(mode)

SpecToggle == ToggleInit /\ [][ToggleNext]_vars

\* the runs of a session that loads, edits and saves, with a second edit to
\* make while the save is in flight; no request is lost
InFlightInit ==
    /\ doc = JNull /\ marks = {} /\ result = JNull /\ op = "inflight"
    /\ EditorInit

InFlightNext ==
    \/ \E file \in Files, accept \in BOOLEAN : handleFileSelect(file, accept)
    \/ \E file \in Files : LoadSuccess(file)
    \/ \E newContent \in VisualEdits(jsonContent) : handleJsonChange(newContent)
    \/ \E newRaw \in RawTexts : handleRawChange(newRaw)
    \/ \E mode \in {"visual", "raw"} : toggleMode(mode)
    \/ handleSave
    \/ ValidateValid
    \/ ValidateInvalid
    \/ SaveHandled
    \/ SaveSuccess
    \/ SaveFailure

SpecInFlight == InFlightInit /\ [][InFlightNext]_vars

\* the runs in which blocks are edited in their raw editors, marked and saved;
\* no request is lost
ProtectInit ==
    /\ doc = JNull /\ marks = {} /\ result = JNull /\ op = "protect"
    /\ EditorInit

ProtectNext ==
    \/ \E file \in Files, accept \in BOOLEAN : handleFileSelect(file, accept)
    \/ \E file \in Files : LoadSuccess(file)
    \/ \E block \in Blocks(jsonContent), text \in BlockRawTexts : handleRawSave(block, text)
    \/ \E block \in Blocks(jsonContent) : handleDeleteClick(block)
    \/ handleSave
    \/ ValidateValid
    \/ SaveHandled
    \/ SaveSuccess

SpecProtect == ProtectInit /\ [][ProtectNext]_vars

\* listBackups(filename): the files of the backup directory whose names start
\* with the name of the file
listBackups(filename) == {name \in BackupFiles : name.file = filename}

\* the Restore button of a backup listed for the selected file is clicked:
\* restoreMutation posts the two names to /api/backups/restore, the server
\* runs restoreBackup, and onSuccess invalidates the load of the selected
\* file, which is fetched again while the cached response stays on display
restoreMutation(backupFilename) ==
    /\ selectedFile # "none"
    /\ backupFilename \in listBackups(selectedFile)
    /\ \E second \in now..MaxClock :
        LET res == restoreBackup(files, backups, preRestore, selectedFile, backupFilename,
                                 second)
        IN /\ res.ok
           /\ now' = second
           /\ files' = res.disk
           /\ preRestore' = res.pre
           /\ lastSave' = {[call |-> "restore", filename |-> selectedFile,
                            content |-> res.content, ok |-> res.ok,
                            backupPath |-> res.backupPath]}
    /\ loading' = loading \cup {selectedFile}
    /\ atSave' = {}
    /\ sortRan' = FALSE
    /\ lastClick' = {}
    /\ UNCHANGED <<pureVars, selectedFile, isRawMode, hasUnsavedChanges, jsonContent, rawContent,
                   validationError, markedForDeletion, validateReq, saveReq, saveStatus, cache,
                   backups, edits, saves, calls, discardAccepted>>

\* the runs in which another client saved a file before the session opens it,
\* and the session edits and restores the backups that saves made of the open
\* file; no request is lost
RestoreInit ==
    /\ doc = JNull /\ marks = {} /\ result = JNull /\ op = "restore"
    /\ EditorInit

RestoreNext ==
    \/ \E filename \in Files : ApiSave(filename, AltText)
    \/ \E file \in Files, accept \in BOOLEAN : handleFileSelect(file, accept)
    \/ \E file \in Files : LoadSuccess(file)
    \/ \E newContent \in VisualEdits(jsonContent) : handleJsonChange(newContent)
    \/ \E backupFilename \in {name \in listBackups(selectedFile) : name.kind = "save"} :
          restoreMutation(backupFilename)

SpecRestore == RestoreInit /\ [][RestoreNext]_vars

\* the runs of the storage alone: clients post valid and invalid texts and
\* restore backups
StorageTexts == {InvalidText, AltText, Compact(DocB)}

StorageInit ==
    /\ doc = JNull /\ marks = {} /\ result = JNull /\ op = "storage"
    /\ EditorInit

StorageNext ==
    \/ \E filename \in Files, content \in StorageTexts : ApiSave(filename, content)
    \/ \E filename \in Files, backupFilename \in BackupFiles :
          ApiRestore(filename, backupFilename)

SpecStorage == StorageInit /\ [][StorageNext]_vars

(***************************************************************************)
(* Properties of delete-by-path.                                           *)
(***************************************************************************)
\* the tree without the nodes whose path, taken in the tree as given, is in M
RECURSIVE DeleteOriginal(_, _, _)
RECURSIVE KeepOriginal(_, _, _, _)
KeepOriginal(v, base, M, n) ==
    IF n = 0 THEN << >>
    ELSE LET rest == KeepOriginal(v, base, M, n - 1)
             p == ChildPath(v, base, n)
             c == DeleteOriginal(ChildValue(v, n), p, M)
         IN  IF p \in M THEN rest
             ELSE Append(rest, IF IsArray(v) THEN c ELSE <<v[2][n][1], c>>)
DeleteOriginal(v, base, M) ==
    IF IsContainer(v) THEN <<v[1], KeepOriginal(v, base, M, Len(v[2]))>> ELSE v

\* the paths of the nodes of v that are elements of an array
RECURSIVE ArrayElementPaths(_, _)
ArrayElementPaths(v, base) ==
    IF ~IsContainer(v) THEN {}
    ELSE UNION {(IF IsArray(v) THEN {ChildPath(v, base, i)} ELSE {})
                  \cup ArrayElementPaths(ChildValue(v, i), ChildPath(v, base, i))
                : i \in 1..Len(v[2])}

\* the paths of the nodes strictly below the node of v whose path is P
RECURSIVE PathsBelow(_, _, _)
PathsBelow(v, base, P) ==
    IF ~IsContainer(v) THEN {}
    ELSE UNION {(IF ChildPath(v, base, i) = P
                 THEN NodePaths(ChildValue(v, i), P) ELSE {})
                  \cup PathsBelow(ChildValue(v, i), ChildPath(v, base, i), P)
                : i \in 1..Len(v[2])}

\* C1: removeMarkedItems applied to the root returns the input without
\* exactly the nodes whose path in the input tree is marked (and their
\* subtrees); the children of an array element are tested under the index
\* the element has in the input.
C1_DeletesExactlyMarked ==
    op = "remove" => result = DeleteOriginal(doc, "", marks)

\* C5 as stated: applying the transform twice with the same marked set gives
\* the result of applying it once, array-index paths included.
C5_Idempotent ==
    op = "removeTwice" => result = removeMarkedItems(doc, "", marks)

\* C5 amended: applying the transform twice gives the result of applying it
\* once whenever no element of an array of the input is marked.
C5_IdempotentOnKeys ==
    (op = "removeTwice" /\ marks \cap ArrayElementPaths(doc, "") = {})
        => result = removeMarkedItems(doc, "", marks)

C5_Witness ==
    /\ op = "removeTwice"
    /\ marks \cap ArrayElementPaths(doc, "") = {}
    /\ Cardinality(marks) = 2
    /\ ArrayElementPaths(doc, "") # {}
    /\ result # doc

\* C6: with P marked, the output does not depend on whether paths strictly
\* below P are marked as well.
C6_SubtreeAtomic ==
    op = "remove" =>
        \A P \in marks :
            result = removeMarkedItems(doc, "", marks \ PathsBelow(doc, "", P))

(***************************************************************************)
(* Properties of the name sort.                                            *)
(***************************************************************************)
\* every element is a non-null object whose Name is a string, and there is one
Qualifies(items) ==
    /\ items # << >>
    /\ \A i \in 1..Len(items) :
          /\ items[i][1] = "object"
          /\ \E j \in 1..Len(items[i][2]) :
                items[i][2][j][1] = "Name" /\ items[i][2][j][2][1] = "string"

ItemName(item) ==
    item[2][CHOOSE j \in 1..Len(item[2]) : item[2][j][1] = "Name"][2][2]

\* ascending order of the names that occur in the generated documents
NameBefore(s, t) == <<s, t>> \in {<<"", "a">>, <<"", "b">>, <<"a", "b">>}

Bijections(n) == {p \in [1..n -> 1..n] : \A i, j \in 1..n : p[i] = p[j] => i = j}

\* out is items in ascending order of Name, equal names in their input
\* order, each element replaced by its own transform
StableSorted(items, out) ==
    \E p \in Bijections(Len(items)) :
        /\ out = [i \in 1..Len(items) |-> sortArraysByName(items[p[i]])]
        /\ \A i, j \in 1..Len(items) :
              i < j => \/ NameBefore(ItemName(items[p[i]]), ItemName(items[p[j]]))
                       \/ /\ ItemName(items[p[i]]) = ItemName(items[p[j]])
                          /\ p[i] < p[j]

\* C7: an array is reordered if and only if it qualifies; a qualifying array
\* comes out as the stable ascending sort by Name of its transformed
\* elements, any other array as its transformed elements in input order.
C7_SortsQualifyingArrays ==
    (op = "sort" /\ IsArray(doc)) =>
        IF Qualifies(doc[2])
        THEN StableSorted(doc[2], result[2])
        ELSE result[2] = [i \in 1..Len(doc[2]) |-> sortArraysByName(doc[2][i])]

C7_Witness ==
    /\ op = "sort" /\ IsArray(doc) /\ Qualifies(doc[2])
    /\ \E i \in 1..Len(doc[2]) : ItemName(result[2][i]) # ItemName(doc[2][i])
    /\ \E i, j \in 1..Len(doc[2]) :
          i # j /\ doc[2][i] # doc[2][j] /\ ItemName(doc[2][i]) = ItemName(doc[2][j])

Ascending(items) ==
    \A i \in 1..(Len(items) - 1) :
        ~NameBefore(ItemName(items[i + 1]), ItemName(items[i]))

RECURSIVE AllQualifyingSorted(_)
AllQualifyingSorted(v) ==
    IF ~IsContainer(v) THEN TRUE
    ELSE /\ (IsArray(v) /\ Qualifies(v[2])) => Ascending(v[2])
         /\ \A i \in 1..Len(v[2]) : AllQualifyingSorted(ChildValue(v, i))

\* the elements (or entry values) of v that hold a qualifying array that is
\* not in ascending order
RECURSIVE HoldsUnsorted(_)
HoldsUnsorted(v) ==
    /\ IsContainer(v)
    /\ \/ IsArray(v) /\ Qualifies(v[2]) /\ ~Ascending(v[2])
       \/ \E i \in 1..Len(v[2]) : HoldsUnsorted(ChildValue(v, i))

\* a and b are the same value up to the order of the elements of their arrays
RECURSIVE SameUpToOrder(_, _)
SameUpToOrder(a, b) ==
    /\ a[1] = b[1]
    /\ IF IsArray(a)
       THEN /\ Len(a[2]) = Len(b[2])
            /\ \E p \in Bijections(Len(a[2])) :
                  \A i \in 1..Len(a[2]) : SameUpToOrder(a[2][i], b[2][p[i]])
       ELSE IF IsPlainObject(a)
       THEN /\ Len(a[2]) = Len(b[2])
            /\ \A i \in 1..Len(a[2]) :
                  /\ a[2][i][1] = b[2][i][1]
                  /\ SameUpToOrder(a[2][i][2], b[2][i][2])
       ELSE a = b

\* C8: an array that does not qualify keeps the order of its elements, and
\* every qualifying array at any depth of the output is in ascending order,
\* under qualifying and non-qualifying ancestors alike.
C8_NestedSortedRegardless ==
    op = "sort" =>
        /\ AllQualifyingSorted(result)
        /\ (IsArray(doc) /\ ~Qualifies(doc[2])) =>
              /\ Len(result[2]) = Len(doc[2])
              /\ \A i \in 1..Len(doc[2]) : SameUpToOrder(doc[2][i], result[2][i])

C8_Witness ==
    /\ op = "sort" /\ IsArray(doc) /\ ~Qualifies(doc[2])
    /\ Len(doc[2]) = 2
    /\ HoldsUnsorted(doc[2][1])
    /\ IsPlainObject(doc[2][2]) /\ Qualifies(<<doc[2][2]>>)
    /\ HoldsUnsorted(doc[2][2])

(***************************************************************************)
(* Properties of the save sequence.                                        *)
(***************************************************************************)
\* this step issues a save request
IssuesSave == saveStatus # "pending" /\ saveStatus' = "pending"

\* C2: a click on Save captures rawContent and the marked set as they are;
\* a save request is issued only in the step that receives "valid" for the
\* captured text, for the selected file, with the 2-space serialization of
\* the name sort of the parsed text from which the captured marked paths
\* were deleted (no deletion for an empty set); sortArraysByName is called
\* in no step but that one.
C2_SavePipelineOrder ==
    [][/\ saves' # saves =>
             validateReq' = {[content |-> rawContent, marked |-> markedForDeletion]}
       /\ IssuesSave =>
             /\ validateReq # {}
             /\ \A req \in validateReq, sent \in saveReq' :
                   /\ Parse(req.content).ok
                   /\ sent.filename = selectedFile
                   /\ sent.content =
                        Stringify2(sortArraysByName(
                            IF req.marked = {} THEN Parse(req.content).val
                            ELSE removeMarkedItems(Parse(req.content).val, "", req.marked)))
       /\ sortRan' => IssuesSave
      ]_vars

\* a save was issued for a text and a marked set for which the sort reorders
\* the parsed value, the deletion removes a node, and deleting after the
\* sort would have removed another one
C2_Witness ==
    /\ sortRan
    /\ \E s \in atSave, sent \in saveReq :
          LET parsed == Parse(s.raw).val
          IN  /\ s.marked # {}
              /\ sortArraysByName(parsed) # parsed
              /\ sent.content # Stringify2(sortArraysByName(parsed))
              /\ sent.content #
                   Stringify2(removeMarkedItems(sortArraysByName(parsed), "", s.marked))

\* C3: when the validation of the captured text comes back without "valid",
\* no save request is issued, no file and no backup is written, and
\* rawContent, jsonContent, the dirty flag and the marked set stay as they
\* are, which is as they were when Save was clicked; and a call of
\* saveJsonFile with a text that does not parse fails and leaves every file
\* and every backup as it is.
C3_InvalidSaveAborted ==
    [][/\ (/\ validateReq # {} /\ validateReq' = {}
           /\ \A req \in validateReq : ~Parse(req.content).ok)
          => /\ UNCHANGED <<saveReq, saveStatus, files, backups>>
             /\ UNCHANGED <<rawContent, jsonContent, hasUnsavedChanges, markedForDeletion>>
             /\ \A s \in atSave : Session' = s
       /\ \A call \in lastSave' :
             ~Parse(call.content).ok =>
                 ~call.ok /\ files' = files /\ backups' = backups
      ]_vars

\* a save of unparsable text was refused by the validation: the error is
\* shown, no save was ever issued, the session is as it was at the click
C3_Witness ==
    /\ validationError = "invalid"
    /\ saves = 1 /\ validateReq = {} /\ saveStatus = "idle"
    /\ hasUnsavedChanges /\ ~Parse(rawContent).ok
    /\ atSave = {Session}
    /\ files = InitialFiles
    /\ \A b \in DOMAIN backups : backups[b] = NoCopy

\* C4: a load, validate or save request that fails changes none of
\* rawContent, jsonContent, the dirty flag and the marked set, and after a
\* failed validate or save request they are as they were when Save was
\* clicked.
C4_FailureLeavesState ==
    [][/\ (loading' # loading /\ loading' \subseteq loading /\ cache' = cache)
          => UNCHANGED <<rawContent, jsonContent, hasUnsavedChanges, markedForDeletion>>
       /\ (validateReq # {} /\ validateReq' = {} /\ ~IssuesSave)
          => /\ UNCHANGED <<rawContent, jsonContent, hasUnsavedChanges, markedForDeletion>>
             /\ \A s \in atSave : Session' = s
       /\ (saveStatus = "pending" /\ saveStatus' = "error")
          => /\ UNCHANGED <<rawContent, jsonContent, hasUnsavedChanges, markedForDeletion>>
             /\ \A s \in atSave : Session' = s
      ]_vars

\* C9: when a save completes successfully the session is not dirty, no path
\* is marked, and rawContent is the 2-space serialization of jsonContent and
\* the content that was persisted, which was persisted for the selected file.
C9_CleanBaselineAfterSave ==
    [][(saveStatus = "pending" /\ saveStatus' = "success") =>
           /\ ~hasUnsavedChanges'
           /\ markedForDeletion' = {}
           /\ rawContent' = Stringify2(jsonContent')
           /\ \A sent \in saveReq :
                 rawContent' = sent.content /\ sent.filename = selectedFile'
      ]_vars

(***************************************************************************)
(* Properties of the two editing frames.                                   *)
(***************************************************************************)
\* C10: an edit in the visual editor leaves rawContent equal to the 2-space
\* serialization of the new jsonContent and the session dirty, and the two
\* buffers then denote the same JSON value.
C10_StructuredEditSyncsRaw ==
    [][(edits' # edits /\ ~isRawMode) =>
           /\ rawContent' = Stringify2(jsonContent')
           /\ hasUnsavedChanges'
           /\ Parse(rawContent') = [ok |-> TRUE, val |-> jsonContent']
      ]_vars

\* the one edit made was a visual one, and nothing replaced the buffers since
C10_Witness ==
    /\ edits = 1 /\ saves = 0 /\ hasUnsavedChanges /\ ~isRawMode
    /\ jsonContent \notin {JNull, DocA, DocB}
    /\ rawContent = Stringify2(jsonContent)
    /\ rawContent # Compact(jsonContent)

\* rawContent holds a text typed into the raw editor
RawPending == rawContent \in RawTexts

\* C11: an edit in the raw editor replaces rawContent by the typed text and
\* sets dirty, and leaves jsonContent, the marked set and the selected file
\* as they were; while rawContent holds a typed text, jsonContent changes
\* only in the step in which a save's validation passed, when a file's
\* loaded content replaces both buffers, or by an edit made in the visual
\* editor, which takes no part of the new value from the typed text.
C11_RawEditFrame ==
    [][/\ (edits' # edits /\ isRawMode) =>
              /\ rawContent' \in RawTexts
              /\ hasUnsavedChanges'
              /\ jsonContent' = jsonContent
              /\ markedForDeletion' = markedForDeletion
              /\ selectedFile' = selectedFile
       /\ (RawPending /\ jsonContent' # jsonContent) =>
              \/ /\ sortRan'
                 /\ \E req \in validateReq :
                       /\ validateJson(req.content)
                       /\ jsonContent' = SavePipeline(req.content, req.marked)
              \/ /\ selectedFile' # "none"
                 /\ \E fileContent \in cache'[selectedFile'] :
                       /\ jsonContent' = fileContent.content
                       /\ rawContent' = fileContent.raw
              \/ /\ edits' # edits /\ ~isRawMode
                 /\ jsonContent' \in VisualEdits(jsonContent)
      ]_vars

\* a valid text was typed while a path was marked, and jsonContent is still
\* the value loaded, not the value the text denotes
C11_Witness ==
    /\ isRawMode /\ edits = 1 /\ saves = 0 /\ hasUnsavedChanges
    /\ rawContent = AltText
    /\ jsonContent = DocA
    /\ jsonContent # Parse(rawContent).val
    /\ markedForDeletion # {}

(***************************************************************************)
(* Properties of file selection and of the marked set.                     *)
(***************************************************************************)
\* C12: a click on a file asks for confirmation exactly when dirty is true;
\* when the user declines, the selected file, rawContent, jsonContent,
\* dirty, the marked set and the mode are unchanged and no load is started;
\* when dirty is false the clicked file becomes the selected one, in visual
\* mode, without a dialog.
C12_DeclinedSwitchChangesNothing ==
    [][\A click \in lastClick' :
          click.handler = "handleFileSelect" =>
             /\ (click.confirm # "none") <=> hasUnsavedChanges
             /\ click.confirm = "declined" =>
                   /\ UNCHANGED <<selectedFile, rawContent, jsonContent,
                                  hasUnsavedChanges, markedForDeletion, isRawMode>>
                   /\ UNCHANGED <<loading, cache, validationError>>
             /\ click.confirm = "none" =>
                   selectedFile' = click.name /\ ~isRawMode'
      ]_vars

\* the user has just declined to leave a file with unsaved changes and a
\* marked path for the other file
C12_Witness ==
    /\ hasUnsavedChanges
    /\ markedForDeletion # {}
    /\ \E click \in lastClick :
          /\ click.handler = "handleFileSelect"
          /\ click.confirm = "declined"
          /\ click.name # selectedFile

\* C13: the marked set is empty when the first response for the selected
\* file arrives, becomes empty in every step that changes the selected file,
\* and becomes empty in the step of a save that applied deletions; a path
\* enters the set only by a click on a block shown while the selected file
\* stays the same, so that no path marked under one file is in the set under
\* another.
C13_MarkedSetLifecycle ==
    [][/\ selectedFile' # selectedFile => markedForDeletion' = {}
       /\ (/\ selectedFile' # "none"
           /\ cache[selectedFile'] = {}
           /\ cache'[selectedFile'] # {}) => markedForDeletion' = {}
       /\ (sortRan' /\ \E req \in validateReq : req.marked # {}) =>
              markedForDeletion' = {}
       /\ ~(markedForDeletion' \subseteq markedForDeletion) =>
              /\ selectedFile' = selectedFile
              /\ selectedFile # "none"
              /\ (markedForDeletion' \ markedForDeletion)
                    \subseteq {block.path : block \in Blocks(jsonContent)}
      ]_vars

\* a save has just applied the deletions of a non-empty marked set, and the
\* set is empty
C13_Witness ==
    /\ sortRan
    /\ markedForDeletion = {}
    /\ \E s \in atSave : s.marked # {} /\ jsonContent # s.json

\* C14: a click on the delete button of a block that shows an array under
\* the name "Content" or "Root Array" is refused: the marked set, jsonContent
\* and rawContent are the same after the click as before it.
C14_ProtectedDeleteRefused ==
    [][\A click \in lastClick' :
          (/\ click.handler = "handleDeleteClick"
           /\ click.name \in {"Content", "Root Array"}
           /\ \E block \in Blocks(jsonContent) :
                 /\ block.name = click.name
                 /\ block.path = click.path
                 /\ IsArray(block.value)) =>
             /\ click.confirm = "disabled"
             /\ UNCHANGED <<markedForDeletion, jsonContent, rawContent, hasUnsavedChanges>>
      ]_vars

\* the delete button of the Content array has just been clicked in a
\* session that holds an edit
C14_Witness ==
    /\ hasUnsavedChanges /\ ~isRawMode
    /\ \E click \in lastClick :
          /\ click.handler = "handleDeleteClick"
          /\ click.name = "Content"
          /\ click.confirm = "disabled"
          /\ \E block \in Blocks(jsonContent) :
                block.path = click.path /\ IsArray(block.value)

(***************************************************************************)
(* Properties of the validation error.                                     *)
(***************************************************************************)
\* C15: while validationError is set, no step other than the selection of a
\* file takes the session from the raw editor to the visual editor, and no
\* step issues a save request or writes a file.
C15_ErrorBlocksSaveAndVisual ==
    [][(/\ validationError # "none"
        /\ \A click \in lastClick' : click.handler # "handleFileSelect") =>
           /\ isRawMode => isRawMode'
           /\ ~IssuesSave
           /\ files' = files
      ]_vars

C17_BackupsImmutable ==
    [][/\ \A call \in lastSave' :
             call.ok => BackupContent(backups, preRestore, call.backupPath) = NoCopy
       /\ \A k \in DOMAIN backups :
             backups[k] # NoCopy => backups'[k] = backups[k]
       /\ \A k \in DOMAIN preRestore :
             preRestore[k] # NoCopy => preRestore'[k] = preRestore[k]
      ]_vars

(***************************************************************************)
(* Properties of loading.                                                  *)
(***************************************************************************)
\* C18: when the load response of a file arrives, it replaces rawContent and
\* jsonContent by that file's content if the file is the selected one and
\* leaves them as they are if it is not; so when no load is in flight and
\* nothing was edited or saved, the buffers hold the content of the selected
\* file, whichever response arrived last.
C18_LoadLastRequestWins ==
    [][/\ \A file \in Files :
             (file \in loading /\ file \notin loading' /\ cache'[file] # {}) =>
                IF file = selectedFile
                THEN \E fileContent \in cache'[file] :
                        /\ jsonContent' = fileContent.content
                        /\ rawContent' = fileContent.raw
                        /\ rawContent' = files[file]
                ELSE UNCHANGED <<jsonContent, rawContent, hasUnsavedChanges,
                                 validationError, selectedFile>>
       /\ (/\ selectedFile # "none" /\ loading = {} /\ edits = 0 /\ saves = 0
           /\ cache[selectedFile] # {}) =>
              /\ rawContent = files[selectedFile]
              /\ jsonContent = Parse(files[selectedFile]).val
      ]_vars

\* b.json was selected while the load of a.json was in flight, and the
\* response for b.json has arrived first
C18_Witness ==
    /\ selectedFile = "b.json"
    /\ loading = {"a.json"}
    /\ cache["a.json"] = {} /\ cache["b.json"] # {}
    /\ rawContent = files["b.json"]
    /\ jsonContent = DocB
    /\ edits = 0 /\ saves = 0

(***************************************************************************)
(* Properties of marking.                                                  *)
(***************************************************************************)
\* a click on an enabled delete button
IsToggle(click) == click.handler = "handleDeleteClick" /\ click.confirm = "none"

\* C19: a toggle of a path puts the path into the marked set when it was not
\* in it and takes it out when it was, and every other path is in the set
\* after the toggle exactly if it was before; a toggle that follows a toggle
\* of the same path leaves the set as it was before the first of the two.
C19_ToggleInvolution ==
    [][\A click \in lastClick' :
          IsToggle(click) =>
             /\ click.path \in markedForDeletion' <=> click.path \notin markedForDeletion
             /\ \A other \in (markedForDeletion \cup markedForDeletion') \ {click.path} :
                   other \in markedForDeletion' <=> other \in markedForDeletion
             /\ \A first \in lastClick :
                   (IsToggle(first) /\ first.path = click.path) =>
                      markedForDeletion' = first.marked
      ]_vars

\* a path has just been unmarked by the second of two clicks while another
\* path stays marked
C19_Witness ==
    \E click \in lastClick :
       /\ IsToggle(click)
       /\ click.path \in click.marked
       /\ Cardinality(click.marked) = 2
       /\ markedForDeletion = click.marked \ {click.path}
       /\ markedForDeletion # {}

\* the newline characters of the text before the offset
NewlinesBefore(text, offset) ==
    Cardinality({i \in 1..Len(text) : text[i] = "\n" /\ CharsBefore(text, i) < offset})

LastNewlineBefore(text, offset) ==
    LET at == {CharsBefore(text, i) : i \in {j \in 1..Len(text) :
                   text[j] = "\n" /\ CharsBefore(text, j) < offset}}
    IN  IF at = {} THEN -1 ELSE CHOOSE n \in at : \A m \in at : m <= n

\* C21 as the specification words it: the column reported for a syntax error
\* at offset o is o minus the index of the last newline before o minus 1.
C21_ColumnFormula ==
    (op = "validated" /\ ~Parse(doc).ok) =>
        \A offset \in result.match :
            /\ result.server.column = offset - LastNewlineBefore(doc, offset) - 1
            /\ result.client.column = offset - LastNewlineBefore(doc, offset) - 1

\* C21: the column reported for a syntax error at offset o is o minus the
\* index of the last newline before o, with index -1 when no newline
\* precedes o: the columns count from 1.
C21_ColumnOneBased ==
    (op = "validated" /\ ~Parse(doc).ok) =>
        \A offset \in result.match :
            /\ result.server.column = offset - LastNewlineBefore(doc, offset)
            /\ result.client.column = offset - LastNewlineBefore(doc, offset)

\* an error reported right after a newline that is not the first character
C21_Witness ==
    /\ op = "validated"
    /\ ~Parse(doc).ok
    /\ \E offset \in result.match :
          /\ LastNewlineBefore(doc, offset) >= 1
          /\ offset = LastNewlineBefore(doc, offset) + 1
          /\ result.server.column = 1
          /\ result.client.column = 1


(***************************************************************************)
(* Properties of saves across file switches and edits.                     *)
(***************************************************************************)
\* C22: every save request issued for a file carries content derived from
\* that file's own loaded content: a request is issued for a file only when
\* the load of that file has completed and put its content in the buffers,
\* never before the load completed or after it failed, when the buffers
\* still hold the content of the file selected before.
C22_NoCrossFileWrites ==
    [][IssuesSave =>
          \A sent \in saveReq' :
              /\ sent.filename \notin loading
              /\ cache[sent.filename] # {}
      ]_vars


\* the nodes below v, each with the path removeMarkedItems tests for it when
\* it is run on v at path base
RECURSIVE EngineNodes(_, _)
EngineNodes(v, base) ==
    IF ~IsContainer(v) THEN {}
    ELSE UNION {{[path |-> ChildPath(v, base, i), value |-> ChildValue(v, i)]}
                  \cup EngineNodes(ChildValue(v, i), ChildPath(v, base, i))
                : i \in 1..Len(v[2])}

\* C23: for every block of the visual editor whose delete button is enabled,
\* the path the button passes to the toggle is the path removeMarkedItems
\* computes, from the root of the document, for the node the block shows.
C23_EditorAndEngineAgreeOnPaths ==
    VisualShown =>
        \A block \in Blocks(jsonContent) :
            (~DeleteDisabled(block) /\ block.path # "") =>
                [path |-> block.path, value |-> block.value]
                    \in EngineNodes(jsonContent, "")


\* C24: an edit made after Save was clicked and before the response to the
\* save arrives is not lost silently: when the save completes, either the
\* session is dirty or rawContent is the content that was persisted.
C24_InFlightEditsNotLost ==
    [][(saveStatus = "pending" /\ saveStatus' = "success") =>
           \/ hasUnsavedChanges'
           \/ \A sent \in saveReq :
                 rawContent' = sent.content /\ rawContent' = files'[selectedFile']
      ]_vars


\* C25: a structured edit made in the visual editor while rawContent holds a
\* valid text typed into the raw editor, the editor having been switched to
\* visual mode by the mode toggle and not by a click on a file, keeps the raw
\* edit: the new rawContent denotes the value of the typed text with the
\* structured edit applied to it.
C25_RawEditSurvivesStructuredEdit ==
    [][(/\ edits' # edits /\ ~isRawMode
        /\ RawPending /\ Parse(rawContent).ok
        /\ lastClick = {}) =>
           /\ Parse(rawContent').ok
           /\ Parse(rawContent').val \in VisualEdits(Parse(rawContent).val)
      ]_vars


\* C26: the marked set never holds the path of a block that is shown as a
\* protected array, an array named "Content" or "Root Array", whatever was
\* toggled, edited and saved before.
C26_ProtectedNeverMarked ==
    VisualShown =>
        \A block \in Blocks(jsonContent) :
            isProtectedArray(block.name, block.value) =>
                block.path \notin markedForDeletion


\* C27: a structured edit leaves every marked path on the node it was on: a
\* block shown at a marked path before the edit is shown at that path after
\* it, with the value it had or with that value edited.
C27_MarkedPathKeepsItsNode ==
    [][(edits' # edits /\ ~isRawMode) =>
           \A block \in Blocks(jsonContent) :
               block.path \in markedForDeletion =>
                   \E after \in Blocks(jsonContent') :
                       /\ after.path = block.path
                       /\ after.value \in {block.value} \cup BlockEdits(block.value)
      ]_vars

(***************************************************************************)
(* Properties of the reloads of the open file.                             *)
(***************************************************************************)
\* a step replaces the buffers that held unsaved changes by the response
\* loaded for the selected file
DiscardsByLoad ==
    /\ hasUnsavedChanges
    /\ ~hasUnsavedChanges'
    /\ saveReq' = saveReq
    /\ \E fileContent \in cache'[selectedFile'] :
          jsonContent' = fileContent.content /\ rawContent' = fileContent.raw

\* C28: unsaved edits are discarded only after the user confirmed: whenever
\* the buffers are replaced by freshly loaded file content while
\* hasUnsavedChanges is true, on a file switch or on the reload that follows
\* the restore of a backup of the open file, the confirm dialog was accepted
\* for these changes, in this step or in an earlier one
C28_DiscardOnlyAfterConfirm ==
    [][DiscardsByLoad =>
          \/ discardAccepted
          \/ \E click \in lastClick' : click.confirm = "accepted"]_vars

(***************************************************************************)
(* Properties of the path strings.                                         *)
(***************************************************************************)
\* how many nodes there are strictly below v
RECURSIVE NodeCount(_)
RECURSIVE NodeCountUpTo(_, _)
NodeCountUpTo(v, n) ==
    IF n = 0 THEN 0 ELSE NodeCountUpTo(v, n - 1) + 1 + NodeCount(ChildValue(v, n))
NodeCount(v) == IF ~IsContainer(v) THEN 0 ELSE NodeCountUpTo(v, Len(v[2]))

\* no key of an object of v contains '.' or '[': no string of the model does
RECURSIVE DelimiterFree(_)
DelimiterFree(v) ==
    /\ IsPlainObject(v) => \A i \in 1..Len(v[2]) : v[2][i][1] \in Strs
    /\ IsContainer(v) => \A i \in 1..Len(v[2]) : DelimiterFree(ChildValue(v, i))

\* C29: the path strings removeMarkedItems computes are unambiguous for
\* delimiter-free keys: in a tree none of whose keys contains '.' or '[',
\* two distinct nodes never receive the same path string, so that there are
\* as many path strings as nodes
C29_PathsUnambiguous ==
    DelimiterFree(doc) => Cardinality(NodePaths(doc, "")) = NodeCount(doc)

(***************************************************************************)
(* Properties of repeated sorts.                                           *)
(***************************************************************************)
\* C30: the sort by name is idempotent and keeps the structure: sorting the
\* sorted tree returns it unchanged; the sorted tree has the scalars of the
\* input, the keys of every object in their order and the elements of every
\* array up to their order; and the text of the sorted tree, saved again
\* with no edit and no mark, is persisted as the same text
C30_SortIdempotentAndStructurePreserving ==
    /\ op = "sortTwice" => result = sortArraysByName(doc)
    /\ op = "sort" =>
          /\ SameUpToOrder(doc, result)
          /\ Parse(Stringify2(result)).ok
          /\ Stringify2(SavePipeline(Stringify2(result), {})) = Stringify2(result)

====
